---- MODULE Spec2Model ----
(***************************************************************************)
(* Model of gnssmapper/satellitedata.py: the SatelliteData object (the     *)
(* in-memory orbit store self.orbits and the persisted per-day orbit       *)
(* files), the updater _update_orbits with its final -> rapid -> ultra     *)
(* fallback, the fitter _create_orbit / _poly_lagrange and the evaluator   *)
(* _locate_sat / _locate_sat_vectorised.                                   *)
(*                                                                         *)
(* Abstractions.  Times are integers in one unit.  An SP3 product is the   *)
(* table _get_sp3_dataframe returns (fetching, decompression and parsing   *)
(* are the external collaborator); every row of a table carries one date,  *)
(* so the tm column of line 235 is the time column.  The coefficient       *)
(* lists "x", "y", "z" of a window (scipy's lagrange over reals) are left  *)
(* out of a window; an evaluated position is the term Xyz(key, t), the     *)
(* value of window key's polynomials at time t.  The JSON round trip of    *)
(* _save_orbit / _load_orbit keeps the nesting and the key order; a key    *)
(* is written as a float (900.0 -> "900.0") and read back at line 150 by   *)
(* astype("float").astype("int64"), which returns the integer it was.      *)
(* Of a numpy array the model keeps the shape and the rows, not the dtype. *)
(***************************************************************************)
EXTENDS Integers, Sequences, FiniteSets, TLC

VARIABLES
    persisted,      \* data.orbits: day -> orbit model, the orbits_<day>.json files
    orbits,         \* self.orbits: day -> orbit model
    pc,             \* position inside the running call, "idle" between calls
    op,             \* the public call being run (or last run)
    days_,          \* _update_orbits: set(days)
    missing_days,   \* _update_orbits: missing days not yet iterated
    day,            \* _update_orbits: loop variable of line 192
    tier,           \* index in Tiers of the product about to be requested
    sp3,            \* _update_orbits: the table acquired for day
    attempts,       \* history: the _get_sp3_file calls of the running call
    warns,          \* the warnings.warn calls of the running call
    result,         \* how the last call ended: "ok" or the exception raised
    batch,          \* the query rows (day, time, svid) of the running call
    output,         \* what the last query call returned
    gaveup          \* history: days whose three tiers all failed in some call

vars == << persisted, orbits, pc, op, days_, missing_days, day, tier, sp3,
           attempts, warns, result, batch, output, gaveup >>

-----------------------------------------------------------------------------
(* Bounds and inputs *)

\* sampling interval of the tables the updater acquires
SampleStep == 300
\* shortest and longest series given to the fitter on its own
MinLen == 5
MaxLen == 13
\* rows of one locate_satellites / name_satellites call in the object's life
MaxQ == 1
\* rows of one direct _locate_sat batch
MaxRows == 4

\* sampling intervals of the fitter's series
Steps == {1, 2, 300}

DayList == << "2020001", "2020002" >>
SvidList == << "E01", "G01" >>

SeqRange(s) == {s[i] : i \in DOMAIN s}
Days == SeqRange(DayList)
Svids == SeqRange(SvidList)

Tiers == << "final", "rapid", "ultra" >>

\* the satellites a product carries: ultra is "GPS + GLONASS only"
TierSvids(t) == IF Tiers[t] = "ultra" THEN {"G01"} ELSE Svids

\* series lengths of an acquired table, per satellite (0: not in the table)
UpdaterLens == {0, 5, 9}

NoDay == "none"
NoSp3 == {}
\* dict(): a model with no satellite, a store or directory with no day
EmptyModel == [s \in {} |-> << >>]

Max(a, b) == IF a > b THEN a ELSE b
Min(a, b) == IF a < b THEN a ELSE b
Abs(a) == IF a < 0 THEN -a ELSE a

-----------------------------------------------------------------------------
(* The table of one product: rows {svid, tm, x, y, z}, as                   *)
(* _get_sp3_dataframe returns them.                                         *)

Coord(s, i, axis) == (IF s = "G01" THEN 1000 ELSE 2000) + 10 * i + axis

SeriesRows(s, n, step) ==
    { [svid |-> s, tm |-> i * step,
       x |-> Coord(s, i, 1), y |-> Coord(s, i, 2), z |-> Coord(s, i, 3)]
      : i \in 0 .. n - 1 }

TableOf(lens, step) ==
    UNION { SeriesRows(s, lens[s], step) : s \in DOMAIN lens }

\* what _get_sp3_file + _get_sp3_dataframe can return for a tier
TierTables(t) ==
    { TableOf(lens, SampleStep) :
        lens \in { l \in [TierSvids(t) -> UpdaterLens] :
                     \E s \in TierSvids(t) : l[s] > 0 } }

-----------------------------------------------------------------------------
(* Orbit Fitter *)

Raised(e) == [exc |-> e]
Returned(v) == [exc |-> "none", val |-> v]

\* sort_values(["svid", "tm"]) then the rows of one svid: 0-based, by tm
SortByTm(rows) ==
    [i \in 0 .. Cardinality(rows) - 1 |->
        CHOOSE r \in rows : Cardinality({q \in rows : q.tm < r.tm}) = i]

\* list(range(start, stop, step)), 1-based sequence of the values
PyRange(start, stop, step) ==
    LET cnt == IF stop > start THEN (stop - start + step - 1) \div step ELSE 0
    IN  [k \in 1 .. cnt |-> start + (k - 1) * step]

\* the range of line 241 without the forced tail window
Idxs_NoTail(n) ==
    LET r == PyRange(3, n - 5, 4)
    IN  IF Len(r) = 0 THEN Raised("IndexError") ELSE Returned(r)

\* lines 241-243: the window centers; idxs[-1] of an empty list raises
Idxs(n) ==
    LET r == PyRange(3, n - 5, 4)
    IN  IF Len(r) = 0 THEN Raised("IndexError")
        ELSE IF r[Len(r)] # n - 5 THEN Returned(Append(r, n - 5))
        ELSE Returned(r)

Vec(r) == << r.tm, r.x, r.y, r.z >>

\* lines 267-290: key (mid time) and window of center i, without coefficients
_poly_lagrange(i, alldata) ==
    LET n == Cardinality(DOMAIN alldata)
    IN  IF i < 3 \/ i > n - 5 THEN Raised("ValueError")
        ELSE LET data_var == [j \in 0 .. 7 |-> alldata[i - 3 + j]]
                 mid == Vec(data_var[3])
                 scale == [c \in 1 .. 4 |->
                              Vec(data_var[7])[c] - Vec(data_var[0])[c]]
             IN  Returned([k |-> mid[1],
                           v |-> [lb |-> data_var[0].tm,
                                  ub |-> data_var[7].tm,
                                  mid |-> mid,
                                  scale |-> scale]])

\* lines 240-246 for one svid: the dict {mid time: window}, a later
\* assignment to the same key replacing the earlier one
FitSeries(alldata) ==
    LET idxs == Idxs(Cardinality(DOMAIN alldata))
    IN  IF idxs.exc # "none" THEN idxs
        ELSE LET kv(j) == _poly_lagrange(idxs.val[j], alldata)
                 js == DOMAIN idxs.val
             IN  IF \E j \in js : kv(j).exc # "none"
                 THEN Raised("ValueError")
                 ELSE LET keys == {kv(j).val.k : j \in js}
                          last(k) == CHOOSE j \in js :
                                       /\ kv(j).val.k = k
                                       /\ \A j2 \in js :
                                            j2 > j => kv(j2).val.k # k
                      IN  Returned([k \in keys |-> kv(last(k)).val.v])

\* lines 234-248: {svid: {mid time: window}}, or the exception
_create_orbit(sp3_df) ==
    LET ids == {r.svid : r \in sp3_df}
        fit(id) == FitSeries(SortByTm({r \in sp3_df : r.svid = id}))
    IN  IF \E id \in ids : fit(id).exc # "none"
        THEN Raised(fit(CHOOSE id \in ids : fit(id).exc # "none").exc)
        ELSE Returned([id \in ids |-> fit(id).val])

\* line 210: OrderedDict(sorted(dic.items())), ascending by key
SortedItems(dic) ==
    [i \in 1 .. Cardinality(DOMAIN dic) |->
        LET k == CHOOSE k \in DOMAIN dic :
                   Cardinality({q \in DOMAIN dic : q < k}) = i - 1
        IN  [key |-> k, win |-> dic[k]]]

\* lines 209-210: the model that is saved
SortedOrbit(unsorted_orbit) ==
    [s \in DOMAIN unsorted_orbit |-> SortedItems(unsorted_orbit[s])]

-----------------------------------------------------------------------------
(* Position Evaluator *)

\* one output row: the (NaN, NaN, NaN) sentinel, or the position that the
\* polynomials of the window with this key give at time t
NaN3 == [kind |-> "nan", key |-> 0, t |-> 0]
Xyz(key, t) == [kind |-> "xyz", key |-> key, t |-> t]

Warning(d, s, msg) == [day |-> d, svid |-> s, msg |-> msg]

\* np.searchsorted(keys_int, t, side="left") on ascending keys, 0-based
SearchSortedLeft(keys_int, t) ==
    Cardinality({j \in DOMAIN keys_int : keys_int[j] < t})

\* a selection that always takes the window at the insertion point
SelectIdx_Upper(keys_int, t) ==
    Min(Len(keys_int) - 1, SearchSortedLeft(keys_int, t))

\* lines 151-157: 0-based index of the window whose key is nearest to t
SelectIdx(keys_int, t) ==
    LET close == SearchSortedLeft(keys_int, t)
        lower == Max(0, close - 1)
        upper == Min(Len(keys_int) - 1, close)
        lower_diff == Abs(keys_int[lower + 1] - t)
        upper_diff == Abs(keys_int[upper + 1] - t)
    IN  IF lower_diff < upper_diff THEN lower ELSE upper

\* an evaluation whose upper bound is exclusive
predict_Exclusive(orbit, i, time) ==
    LET poly_dict == orbit[i + 1].win
    IN  IF time >= poly_dict.ub \/ time < poly_dict.lb
        THEN NaN3
        ELSE Xyz(orbit[i + 1].key, time)

\* lines 159-175: the row of one query time, from the i-th window
predict(orbit, i, time) ==
    LET poly_dict == orbit[i + 1].win
    IN  IF time > poly_dict.ub \/ time < poly_dict.lb
        THEN NaN3
        ELSE Xyz(orbit[i + 1].key, time)

\* line 139: the lookup that guards the evaluation
Available(store, d, s) == d \in DOMAIN store /\ s \in DOMAIN store[d]

\* lines 136-177: the array returned for the query times of one (day, svid):
\* its numpy shape, its rows and the warnings given
_locate_sat_vectorised(store, d, times, s) ==
    LET k == Len(times)
    IN  IF ~Available(store, d, s)
        THEN [shape |-> << k >>,
              rows |-> [i \in 1 .. k |-> NaN3],
              warns |-> << Warning(d, s, "orbit information not available") >>]
        ELSE LET orbit == store[d][s]
                 keys_int == [j \in 1 .. Len(orbit) |-> orbit[j].key]
                 row(i) == predict(orbit, SelectIdx(keys_int, times[i]), times[i])
                 bad == SelectSeq([i \in 1 .. k |-> i], LAMBDA i : row(i) = NaN3)
             IN  [shape |-> IF k = 0 THEN << 0 >> ELSE << k, 3 >>,
                  rows |-> [i \in 1 .. k |-> row(i)],
                  warns |-> [j \in 1 .. Len(bad) |->
                               Warning(d, s, "a valid dictionary wasn't found")]]

\* numpy's rule for output[mask, :] = result, the target being (k, 3):
\* dimensions are matched from the last, each equal or 1 in the source
Broadcastable(shape, k) ==
    IF Len(shape) = 1
    THEN shape[1] \in {1, 3}
    ELSE shape[2] \in {1, 3} /\ shape[1] \in {1, k}

\* the (day, svid) pairs of lines 127-130 in np.unique's ascending order
GroupsOf(b) ==
    LET nS == Len(SvidList)
        all == [g \in 1 .. Len(DayList) * nS |->
                  << DayList[((g - 1) \div nS) + 1], SvidList[((g - 1) % nS) + 1] >>]
    IN  SelectSeq(all, LAMBDA g :
                         /\ \E i \in DOMAIN b : b[i].day = g[1]
                         /\ \E i \in DOMAIN b : b[i].svid = g[2])

\* the row indexes selected by mask, ascending
MaskIdx(b, g) ==
    SelectSeq([i \in 1 .. Len(b) |-> i],
              LAMBDA i : b[i].day = g[1] /\ b[i].svid = g[2])

RECURSIVE LocateLoop(_, _, _, _, _, _)
\* lines 129-133 from the gi-th group on
LocateLoop(store, b, groups, gi, out, w) ==
    IF gi > Len(groups)
    THEN [exc |-> "none", val |-> out, warns |-> w]
    ELSE LET g == groups[gi]
             mask == MaskIdx(b, g)
             times == [j \in 1 .. Len(mask) |-> b[mask[j]].time]
             res == _locate_sat_vectorised(store, g[1], times, g[2])
             w2 == w \o res.warns
         IN  IF ~Broadcastable(res.shape, Len(mask))
             THEN [exc |-> "ValueError", val |-> << >>, warns |-> w2]
             ELSE LET pos(i) == CHOOSE j \in 1 .. Len(mask) : mask[j] = i
                      in_mask(i) == \E j \in 1 .. Len(mask) : mask[j] = i
                      src(i) == IF Len(res.shape) = 1
                                THEN NaN3
                                ELSE res.rows[pos(i)]
                      out2 == [i \in 1 .. Len(b) |->
                                 IF in_mask(i) THEN src(i) ELSE out[i]]
                  IN  LocateLoop(store, b, groups, gi + 1, out2, w2)

\* lines 121-134
_locate_sat(store, b) ==
    LocateLoop(store, b, GroupsOf(b), 1, [i \in 1 .. Len(b) |-> NaN3], << >>)

-----------------------------------------------------------------------------
(* Orbit Store *)

\* the metadata property: the days that have an orbits_<day>.json file
metadata(files) == DOMAIN files

\* lines 40-49: the saved model, or dict() when the file cannot be opened
_load_orbit(files, d) == IF d \in DOMAIN files THEN files[d] ELSE EmptyModel

\* lines 51-53: the directory after json.dump of data_var for day d
_save_orbit(files, d, data_var) ==
    [e \in DOMAIN files \cup {d} |-> IF e = d THEN data_var ELSE files[e]]

\* a load loop that rebuilds the store from the requested days alone
LoadDays_Rebuild(store, files, ds) ==
    [d \in ds |-> _load_orbit(files, d)]

\* lines 214-216: the store after the load loop over the requested days
LoadDays(store, files, ds) ==
    [d \in DOMAIN store \cup ds |->
        IF d \in DOMAIN store THEN store[d] ELSE _load_orbit(files, d)]

\* line 72, self.orbits[x] on the defaultdict: a missing day is inserted empty
DefaultGet(store, ds) ==
    [d \in DOMAIN store \cup ds |->
        IF d \in DOMAIN store THEN store[d] ELSE EmptyModel]

\* line 72: list(self.orbits[x].keys()), in the saved (sorted svid) order
SvidKeys(model) == SelectSeq(SvidList, LAMBDA s : s \in DOMAIN model)

-----------------------------------------------------------------------------
(* Inputs of the public calls *)

Row(d, t, s) == [day |-> d, time |-> t, svid |-> s]
NoSvid == "none"

\* one time inside and one time after the windows of a 9-sample series
QueryTimes == {SampleStep, 10 * SampleStep}

Batches(rows, lo, hi) == UNION {[1 .. k -> rows] : k \in lo .. hi}

LocateRows == {Row(d, t, s) : d \in Days, t \in QueryTimes, s \in Svids}
NameRows == {Row(d, SampleStep, NoSvid) : d \in Days}

DaysOf(b) == {b[i].day : i \in DOMAIN b}

-----------------------------------------------------------------------------
(* The object: construction and the calls *)

Init ==
    /\ persisted = EmptyModel
    /\ orbits = EmptyModel
    /\ pc = "idle"
    /\ op = "none"
    /\ days_ = {}
    /\ missing_days = {}
    /\ day = NoDay
    /\ tier = 1
    /\ sp3 = NoSp3
    /\ attempts = << >>
    /\ warns = << >>
    /\ result = "none"
    /\ batch = << >>
    /\ output = << >>
    /\ gaveup = {}

\* lines 187-191: entry of _update_orbits for the days of a call
Enter(name, ds, b) ==
    /\ pc = "idle"
    /\ op' = name
    /\ batch' = b
    /\ output' = << >>
    /\ days_' = ds
    /\ missing_days' = ds \ metadata(persisted)
    /\ day' = NoDay
    /\ tier' = 1
    /\ sp3' = NoSp3
    /\ attempts' = << >>
    /\ warns' = << >>
    /\ result' = "none"
    /\ pc' = IF ds \ metadata(persisted) = {} THEN "load" ELSE "pick"
    /\ UNCHANGED << persisted, orbits, gaveup >>

\* a caller runs _update_orbits(days)
Call_update_orbits ==
    \E ds \in (SUBSET Days) \ {{}} : Enter("_update_orbits", ds, << >>)

\* lines 69-71: name_satellites(time) up to its call of _update_orbits
Call_name_satellites ==
    \E b \in Batches(NameRows, 1, MaxQ) : Enter("name_satellites", DaysOf(b), b)

\* lines 91-94: locate_satellites(svid, time) up to its call of _update_orbits
Call_locate_satellites ==
    \E b \in Batches(LocateRows, 1, MaxQ) :
        Enter("locate_satellites", DaysOf(b), b)

\* lines 192-194: the loop takes the next missing day (set order)
PickDay ==
    /\ pc = "pick"
    /\ \E d \in missing_days :
        /\ day' = d
        /\ missing_days' = missing_days \ {d}
    /\ tier' = 1
    /\ sp3' = NoSp3
    /\ pc' = "acquire"
    /\ UNCHANGED << persisted, orbits, op, days_, attempts, warns, result,
                    batch, output, gaveup >>

Attempt(ok) == [day |-> day, tier |-> Tiers[tier], ok |-> ok]

\* lines 196, 200, 205: _get_sp3_file returns the product of the tier
AcquireOk ==
    /\ pc = "acquire"
    /\ \E tb \in TierTables(tier) : sp3' = tb
    /\ attempts' = Append(attempts, Attempt(TRUE))
    /\ pc' = "fit"
    /\ UNCHANGED << persisted, orbits, op, days_, missing_days, day, tier,
                    warns, result, batch, output, gaveup >>

\* lines 197-204: final or rapid fails, the handler warns and tries the next
AcquireFallback ==
    /\ pc = "acquire"
    /\ tier < Len(Tiers)
    /\ attempts' = Append(attempts, Attempt(FALSE))
    /\ warns' = Append(warns,
                       Warning(day, NoSvid,
                               IF tier = 1
                               THEN "final SP3 file not available, using rapid"
                               ELSE "rapid SP3 file not available, using ultra (GPS + GLONASS only)"))
    /\ tier' = tier + 1
    /\ UNCHANGED << persisted, orbits, pc, op, days_, missing_days, day, sp3,
                    result, batch, output, gaveup >>

\* line 205: ultra fails inside the except block, nothing catches it
AcquireExhausted ==
    /\ pc = "acquire"
    /\ tier = Len(Tiers)
    /\ attempts' = Append(attempts, Attempt(FALSE))
    /\ result' = "AcquisitionError"
    /\ gaveup' = gaveup \cup {day}
    /\ pc' = "idle"
    /\ UNCHANGED << persisted, orbits, op, days_, missing_days, day, tier,
                    sp3, warns, batch, output >>

\* lines 206-212: fit the table, sort every window map, save the day
FitAndSave ==
    /\ pc = "fit"
    /\ LET unsorted_orbit == _create_orbit(sp3)
       IN  IF unsorted_orbit.exc # "none"
           THEN /\ result' = unsorted_orbit.exc
                /\ pc' = "idle"
                /\ UNCHANGED persisted
           ELSE /\ persisted' =
                        _save_orbit(persisted, day, SortedOrbit(unsorted_orbit.val))
                /\ pc' = IF missing_days = {} THEN "load" ELSE "pick"
                /\ UNCHANGED result
    /\ UNCHANGED << orbits, op, days_, missing_days, day, tier, sp3, attempts,
                    warns, batch, output, gaveup >>

\* lines 214-216, then back in the caller
Load ==
    /\ pc = "load"
    /\ orbits' = LoadDays(orbits, persisted, days_)
    /\ IF op = "_update_orbits"
       THEN pc' = "idle" /\ result' = "ok"
       ELSE pc' = "post" /\ UNCHANGED result
    /\ UNCHANGED << persisted, op, days_, missing_days, day, tier, sp3,
                    attempts, warns, batch, output, gaveup >>

\* lines 72-74: the svids of each row's day
NamePost ==
    /\ pc = "post"
    /\ op = "name_satellites"
    /\ orbits' = DefaultGet(orbits, DaysOf(batch))
    /\ output' = [i \in 1 .. Len(batch) |->
                    SvidKeys(DefaultGet(orbits, DaysOf(batch))[batch[i].day])]
    /\ result' = "ok"
    /\ pc' = "idle"
    /\ UNCHANGED << persisted, op, days_, missing_days, day, tier, sp3,
                    attempts, warns, batch, gaveup >>

\* lines 95-100: the positions of the rows
LocatePost ==
    /\ pc = "post"
    /\ op = "locate_satellites"
    /\ LET r == _locate_sat(orbits, batch)
       IN  /\ output' = r.val
           /\ warns' = warns \o r.warns
           /\ result' = IF r.exc = "none" THEN "ok" ELSE r.exc
    /\ pc' = "idle"
    /\ UNCHANGED << persisted, orbits, op, days_, missing_days, day, tier,
                    sp3, attempts, batch, gaveup >>

Next ==
    \/ Call_update_orbits
    \/ Call_name_satellites
    \/ Call_locate_satellites
    \/ PickDay
    \/ AcquireOk
    \/ AcquireFallback
    \/ AcquireExhausted
    \/ FitAndSave
    \/ Load
    \/ NamePost
    \/ LocatePost

Spec == Init /\ [][Next]_vars

-----------------------------------------------------------------------------
(* The evaluator called on its own *)

\* lines 102-134: _locate_sat(day, time, svid) on the rows of b
Call_locate_sat(b) ==
    /\ pc = "idle"
    /\ op' = "_locate_sat"
    /\ batch' = b
    /\ LET r == _locate_sat(orbits, b)
       IN  /\ output' = r.val
           /\ warns' = r.warns
           /\ result' = IF r.exc = "none" THEN "ok" ELSE r.exc
    /\ UNCHANGED << persisted, orbits, pc, days_, missing_days, day, tier,
                    sp3, attempts, gaveup >>

-----------------------------------------------------------------------------
(* The fitter and the window selection on one series: the updater stands   *)
(* at line 206 with the table of one satellite, n uniformly spaced         *)
(* samples; the day is fitted, saved and loaded, then queried.             *)

FitDay == DayList[1]
FitSvid == SvidList[2]

InitFit ==
    /\ persisted = EmptyModel
    /\ orbits = EmptyModel
    /\ pc = "fit"
    /\ op = "_update_orbits"
    /\ days_ = {FitDay}
    /\ missing_days = {}
    /\ day = FitDay
    /\ tier = 1
    /\ sp3 \in {SeriesRows(FitSvid, n, step) : n \in MinLen .. MaxLen, step \in Steps}
    /\ attempts = << [day |-> FitDay, tier |-> Tiers[1], ok |-> TRUE] >>
    /\ warns = << >>
    /\ result = "none"
    /\ batch = << >>
    /\ output = << >>
    /\ gaveup = {}

\* every integer time from one before the first window to one after the last
FitQueryTimes ==
    IF Available(orbits, FitDay, FitSvid)
    THEN LET orbit == orbits[FitDay][FitSvid]
         IN  (orbit[1].win.lb - 1) .. (orbit[Len(orbit)].win.ub + 1)
    ELSE {}

\* one query per behaviour: the evaluator leaves the store as it is, so a
\* second query meets the state the first one met
QueryFitted ==
    /\ op = "_update_orbits"
    /\ \E t \in FitQueryTimes : Call_locate_sat(<< Row(FitDay, t, FitSvid) >>)

NextFit ==
    \/ FitAndSave
    \/ Load
    \/ QueryFitted

SpecFit == InitFit /\ [][NextFit]_vars

-----------------------------------------------------------------------------
(* The evaluator on batches: the store holds, for each day, nothing or the *)
(* model of a table the updater fitted and saved.                          *)

BuiltModels ==
    { SortedOrbit(_create_orbit(tb).val) :
        tb \in {u \in TierTables(1) : _create_orbit(u).exc = "none"} }

BuiltStores ==
    UNION { [ds -> BuiltModels] : ds \in SUBSET Days }

InitLocate ==
    /\ orbits \in BuiltStores
    /\ persisted = orbits
    /\ pc = "idle"
    /\ op = "none"
    /\ days_ = {}
    /\ missing_days = {}
    /\ day = NoDay
    /\ tier = 1
    /\ sp3 = NoSp3
    /\ attempts = << >>
    /\ warns = << >>
    /\ result = "none"
    /\ batch = << >>
    /\ output = << >>
    /\ gaveup = {}

\* one batch per behaviour, as for QueryFitted
QueryBatch ==
    /\ op = "none"
    /\ \E b \in Batches(LocateRows, 0, MaxRows) : Call_locate_sat(b)

NextLocate == QueryBatch

SpecLocate == InitLocate /\ [][NextLocate]_vars

-----------------------------------------------------------------------------
(* Properties of the updater and the store, under Spec *)

\* the attempts of the running call that were made for day d, in order
AttemptsOf(d) == SelectSeq(attempts, LAMBDA a : a.day = d)
WarningsOf(d) == SelectSeq(warns, LAMBDA w : w.day = d /\ w.svid = NoSvid)

\* all three tiers were requested for d in this call and none delivered
Exhausted(d) ==
    /\ Len(AttemptsOf(d)) = Len(Tiers)
    /\ \A i \in 1 .. Len(Tiers) : ~AttemptsOf(d)[i].ok

\* the fit step of the running call has acted on the table sp3 of day
FitDone == sp3 # NoSp3 /\ pc # "fit"

SeriesLen(tb, s) == Cardinality({r \in tb : r.svid = s})

\* C1: when final, rapid and ultra all fail for a missing day, the call does
\* not raise; the day has no persisted record, a warning was given for it,
\* and once the call is over it returned normally with every requested day
\* in the in-memory store (the failed day as an entry without satellites,
\* so that its queries give the sentinel).
C1_ExhaustedDayIsNotFatal ==
    \A d \in Days :
        Exhausted(d) =>
            /\ result # "AcquisitionError"
            /\ d \notin DOMAIN persisted
            /\ Len(WarningsOf(d)) > 0
            /\ pc = "idle" => (result = "ok" /\ days_ \subseteq DOMAIN orbits)

\* C3: a day whose acquisition failed in some call has an empty model in the
\* in-memory store, and no later call requests a product for it again.
C3_FailedDayCachedEmpty ==
    \A d \in gaveup :
        /\ d \in DOMAIN orbits
        /\ orbits[d] = EmptyModel
        /\ ~(pc = "acquire" /\ day = d)

\* the order of the tiers for d: final, rapid, ultra, each requested once,
\* each after the failure of the one before, none after a success
TierOrder(d) ==
    LET a == AttemptsOf(d)
    IN  /\ Len(a) <= Len(Tiers)
        /\ \A i \in 1 .. Len(a) :
              /\ a[i].tier = Tiers[i]
              /\ i < Len(a) => ~a[i].ok

\* C4: the tiers of a missing day are requested in the order final, rapid,
\* ultra, each at most once and none after a success; and when final and
\* rapid failed and ultra delivered, the day's model is the one fitted from
\* the ultra table and is persisted, two warnings having been given.
C4_FallbackOrderAndUltraBuild ==
    \A d \in Days :
        /\ TierOrder(d)
        /\ (/\ day = d
            /\ FitDone
            /\ Len(AttemptsOf(d)) = Len(Tiers)
            /\ AttemptsOf(d)[Len(Tiers)].ok)
           => /\ Len(WarningsOf(d)) = 2
              /\ d \in DOMAIN persisted
              /\ _create_orbit(sp3).exc = "none"
              /\ persisted[d] = SortedOrbit(_create_orbit(sp3).val)

\* the part of C4 about the order alone
C4_TierOrderOnly == \A d \in Days : TierOrder(d)

\* C5: when the table of a day holds a series of fewer than 8 samples,
\* fitting does not raise; the day is persisted with exactly the satellites
\* whose series has 8 samples or more.
C5_ShortSeriesIsSkipped ==
    (FitDone /\ \E s \in Svids : SeriesLen(sp3, s) \in 1 .. 7)
    => /\ result \notin {"IndexError", "ValueError"}
       /\ day \in DOMAIN persisted
       /\ DOMAIN persisted[day] = {s \in Svids : SeriesLen(sp3, s) >= 8}

\* C9: an entry of the in-memory store, once set, keeps its content in every
\* later state; the query part of a call (after the updater has returned)
\* leaves the store as it is; and no product is requested for a day that
\* has an entry.
C9_StoreEntriesNeverChange ==
    [][ /\ \A d \in DOMAIN orbits :
              d \in DOMAIN orbits' /\ orbits'[d] = orbits[d]
        /\ pc = "post" => orbits' = orbits
        /\ pc' = "acquire" => day' \notin DOMAIN orbits' ]_vars

\* a second call names a day that already has an entry, while another day
\* of the call is loaded, and a query for a satellite the day lacks is over
C9_Witness ==
    /\ pc = "idle"
    /\ op = "locate_satellites"
    /\ result = "ok"
    /\ Cardinality(DOMAIN orbits) = Cardinality(Days)
    /\ \E i \in DOMAIN batch :
          /\ batch[i].day \in DOMAIN orbits
          /\ batch[i].svid \notin DOMAIN orbits[batch[i].day]

-----------------------------------------------------------------------------
(* Properties of the evaluator on batches, under SpecLocate *)

\* the row the evaluator computes for one query row on its own
OwnRow(store, r) ==
    LET orbit == store[r.day][r.svid]
        keys_int == [j \in 1 .. Len(orbit) |-> orbit[j].key]
    IN  predict(orbit, SelectIdx(keys_int, r.time), r.time)

\* C2: for every batch and every store, _locate_sat returns without
\* raising; each row whose day or satellite is absent from the store is the
\* sentinel, and each other row is the result of its own (day, time, svid),
\* at its own position.
C2_AbsentRowsAreSentinel ==
    (op = "_locate_sat" /\ pc = "idle")
    => /\ result = "ok"
       /\ Len(output) = Len(batch)
       /\ \A i \in DOMAIN batch :
             output[i] = IF Available(orbits, batch[i].day, batch[i].svid)
                         THEN OwnRow(orbits, batch[i])
                         ELSE NaN3

-----------------------------------------------------------------------------
(* Properties of the fitter and of the window selection, under SpecFit *)

FitLen == SeriesLen(sp3, FitSvid)
FitSeriesOf == SortByTm({r \in sp3 : r.svid = FitSvid})
FirstTm == FitSeriesOf[0].tm
LastTm == FitSeriesOf[FitLen - 1].tm

\* C6: for a series of N >= 8 samples the fitter gives a window map whose
\* first window starts at the first sample's time, whose last window ends
\* at the last sample's time, and whose windows leave no time between the
\* two uncovered.
C6_WindowsCoverSeries ==
    (FitDone /\ FitLen >= 8)
    => /\ result # "IndexError"
       /\ Available(persisted, FitDay, FitSvid)
       /\ LET w == persisted[FitDay][FitSvid]
          IN  /\ w[1].win.lb = FirstTm
              /\ w[Len(w)].win.ub = LastTm
              /\ \A t \in FirstTm .. LastTm :
                    \E j \in 1 .. Len(w) : w[j].win.lb <= t /\ t <= w[j].win.ub

\* the statement of C6 for the series of 9 samples or more
C6_FromNineSamples ==
    (FitDone /\ FitLen >= 9)
    => /\ result # "IndexError"
       /\ Available(persisted, FitDay, FitSvid)
       /\ LET w == persisted[FitDay][FitSvid]
          IN  /\ w[1].win.lb = FirstTm
              /\ w[Len(w)].win.ub = LastTm
              /\ \A t \in FirstTm .. LastTm :
                    \E j \in 1 .. Len(w) : w[j].win.lb <= t /\ t <= w[j].win.ub

\* a query of the fitted satellite has been answered
Queried ==
    /\ op = "_locate_sat"
    /\ result = "ok"
    /\ Len(batch) = 1
    /\ Available(orbits, batch[1].day, batch[1].svid)

QueriedOrbit == orbits[batch[1].day][batch[1].svid]

\* C7 as stated: a query at the lower bound of a window W is evaluated with
\* W itself.
C7_LowerBoundSelectsOwnWindow ==
    Queried
    => \A j \in 1 .. Len(QueriedOrbit) :
          batch[1].time = QueriedOrbit[j].win.lb
          => output[1] = Xyz(QueriedOrbit[j].key, batch[1].time)

\* C7 as amended: on uniformly spaced samples a query at the lower bound of
\* a window W is evaluated with the window whose key is nearest: W itself
\* when W is the first window, and for every later W a window before W,
\* inside whose bounds the time lies.
C7_LowerBoundSelectsNearestKey ==
    Queried
    => \A j \in 1 .. Len(QueriedOrbit) :
          batch[1].time = QueriedOrbit[j].win.lb
          => /\ output[1].kind = "xyz"
             /\ IF j = 1
                THEN output[1].key = QueriedOrbit[1].key
                ELSE output[1].key < QueriedOrbit[j].key

\* a query at the lower bound of the last of three or more windows
C7_Witness ==
    /\ Queried
    /\ Len(QueriedOrbit) >= 3
    /\ batch[1].time = QueriedOrbit[Len(QueriedOrbit)].win.lb
    /\ output[1].kind = "xyz"

TwelveSamples == SeriesRows(FitSvid, 12, 300)

\* C8 as stated: 12 samples at 0, 300, ..., 3300 give exactly two windows,
\* centred at samples 3 and 7, with bounds [0, 2100] and [600, 3300].
C8_TwelveSamplesStated ==
    (FitDone /\ sp3 = TwelveSamples)
    => /\ Available(persisted, FitDay, FitSvid)
       /\ LET w == persisted[FitDay][FitSvid]
          IN  /\ Len(w) = 2
              /\ w[1].key = 3 * 300 /\ w[2].key = 7 * 300
              /\ w[1].win.lb = 0 /\ w[1].win.ub = 2100
              /\ w[2].win.lb = 600 /\ w[2].win.ub = 3300

\* C8 as amended: the second window, centred at sample 7, is built from
\* samples 4 to 11, so its bounds are [1200, 3300].
C8_TwelveSamplesAmended ==
    (FitDone /\ sp3 = TwelveSamples)
    => /\ Available(persisted, FitDay, FitSvid)
       /\ LET w == persisted[FitDay][FitSvid]
          IN  /\ Len(w) = 2
              /\ w[1].key = 3 * 300 /\ w[2].key = 7 * 300
              /\ w[1].win.lb = 0 /\ w[1].win.ub = 2100
              /\ w[2].win.lb = 1200 /\ w[2].win.ub = 3300

\* the 12-sample series has been fitted, saved and loaded
C8_Witness ==
    /\ sp3 = TwelveSamples
    /\ pc = "idle"
    /\ result = "ok"
    /\ Available(orbits, FitDay, FitSvid)

\* C10: for N >= 9 uniformly spaced samples, every integer query time from
\* the first sample's time to the last one's is evaluated (never the
\* sentinel), by a window whose bounds contain it.
C10_SpanQueriesAreInBounds ==
    (/\ Queried
     /\ FitLen >= 9
     /\ FirstTm <= batch[1].time
     /\ batch[1].time <= LastTm)
    => /\ output[1].kind = "xyz"
       /\ \E j \in 1 .. Len(QueriedOrbit) :
             /\ QueriedOrbit[j].key = output[1].key
             /\ QueriedOrbit[j].win.lb <= batch[1].time
             /\ batch[1].time <= QueriedOrbit[j].win.ub

\* a query at the last sample's time of a series whose forced tail window
\* is one sample after the last regular one
C10_Witness ==
    /\ Queried
    /\ FitLen = 13
    /\ batch[1].time = LastTm
    /\ output[1] = Xyz(QueriedOrbit[Len(QueriedOrbit)].key, LastTm)

====
